---------------------------- MODULE Spec2Model ----------------------------
(***************************************************************************)
(* A model of Final.py: the three tool functions (getWeatherDetails,       *)
(* findTopRestaurants, getIconicDish), the declarative task graph, and the *)
(* driver that registers agent, tools and task, submits an execution and   *)
(* polls it.                                                               *)
(*                                                                         *)
(* Python values are modelled as follows.  A dict is a TLA+ function from  *)
(* its keys (strings) to values, so DOMAIN d is its key set and the empty  *)
(* dict is <<>>.  None is PyNone.  An f-string is the concatenation of its *)
(* fragments.  A call's outcome is either a returned value or a raised     *)
(* exception.  Times are whole local hours counted from a local midnight,  *)
(* so the local hour of t is t % 24; temperatures are tenths of a degree   *)
(* Celsius.                                                                *)
(***************************************************************************)
EXTENDS Integers, Sequences, FiniteSets, TLC

VARIABLES
    stdinTty,    \* is standard input a terminal
    stdoutTty,   \* is standard output a terminal
    encoding,    \* the encoding of standard output
    tool,        \* the name of the tool function called, "none" in the driver's runs
    toolIn,      \* the call's arguments together with what the environment will answer
    toolOut,     \* the call's outcome; Pending before the call, Waiting while the
                 \* call waits for the service's answer
    pc,          \* the driver's position in __main__
    agent,       \* TRUE once client.agents.create returned
    toolsMade,   \* names of the tools registered so far, in order
    task,        \* the task document handed to client.tasks.create, <<>> before
    city_name,   \* the str input() returned, Unbound before the assignment
    execution,   \* TRUE once client.executions.create returned
    extStatus,   \* the status of the execution on the platform
    result,      \* the status the last poll returned ("" before any poll)
    stdout,      \* the writes to standard output, in order: the text of each
                 \* print call with its newline, and the prompt of input()
    exitCode,    \* the process's exit status, -1 while it runs
    failedAt,    \* the step whose call raised, "" if none has
    calls,       \* the steps the driver made, in order: its platform calls and the
                 \* input() (the polling loop's repeated executions.get is
                 \* recorded once)
    run          \* the platform's run of the task: step index, named outputs, tool calls issued

envVars    == <<stdinTty, stdoutTty, encoding>>
toolVars   == <<tool, toolIn, toolOut>>
driverVars == <<pc, agent, toolsMade, task, city_name, execution, extStatus,
                result, stdout, exitCode, failedAt, calls>>
vars       == <<stdinTty, stdoutTty, encoding, tool, toolIn, toolOut, pc, agent, toolsMade, task, city_name,
                execution, extStatus, result, stdout, exitCode, failedAt, calls, run>>

----------------------------------------------------------------------------
(* Python values *)

PyNone == [py |-> "None"]
\* a name no assignment has bound yet
Unbound == [py |-> "unbound"]
PyStr(s) == [py |-> "str", v |-> s]
PyNum(n) == [py |-> "num", v |-> n]

EmptyDict == <<>>

Return(v) == [kind |-> "return", value |-> v, exc |-> ""]
Raise(e)  == [kind |-> "raise", value |-> EmptyDict, exc |-> e]
Pending   == [kind |-> "pending", value |-> EmptyDict, exc |-> ""]
Waiting   == [kind |-> "waiting", value |-> EmptyDict, exc |-> ""]

\* Python's round() on a float: to the nearest integer, a tie to the even one.
\* t is in tenths of a degree.
round(t) ==
    LET q == t \div 10
        r == t % 10
    IN  IF r < 5 THEN q
        ELSE IF r > 5 THEN q + 1
        ELSE IF q % 2 = 0 THEN q ELSE q + 1

----------------------------------------------------------------------------
(* getWeatherDetails *)

\* One entry of forecastData['list'].  shape says which keys it carries:
\*   "ok"            dt, main.temp and weather[0].description
\*   "noDt"          no 'dt'
\*   "noTemp"        no main.temp
\*   "noWeather"     no 'weather'
\*   "emptyWeather"  'weather' is an empty list
Forecast(shape, dt, temp, desc) ==
    [shape |-> shape, dt |-> dt, temp |-> temp, desc |-> desc]

NoForecast == [shape |-> "None", dt |-> 0, temp |-> 0, desc |-> ""]

\* datetime.hour of a local time
hour(t) == t % 24

\* forecastTime > now and forecastTime < now + timedelta(hours = 24)
InNextDay(forecastTime, now) == forecastTime > now /\ forecastTime < now + 24

\* InMorning with "hour <= 12" in place of "hour < 12"
InMorningInclusive(h) == h >= 7 /\ h <= 12

\* the three hour windows
InMorning(h) == h >= 7 /\ h < 12
InLunch(h)   == h >= 12 /\ h < 17
InEvening(h) == h >= 18 /\ h < 23

Exc(type, msg) == [type |-> type, msg |-> msg]
NoExc == Exc("", "")

\* The for loop over forecastData['list'], from entry i on.  acc carries the three
\* todayXForecast locals and the exception raised, if any.  A forecast that has a
\* 'dt' key is a non-empty dict, hence true, so "not todayXForecast" is "is None".
RECURSIVE ScanForecasts(_, _, _, _)
ScanForecasts(list, i, now, acc) ==
    IF i > Len(list) THEN acc
    ELSE LET forecast == list[i] IN
         IF forecast.shape = "noDt" THEN [acc EXCEPT !.exc = Exc("KeyError", "'dt'")]
         ELSE LET forecastTime == forecast.dt
                  inDay == InNextDay(forecastTime, now)
                  h == hour(forecastTime)
                  m == IF inDay /\ InMorning(h) /\ acc.morning = NoForecast
                       THEN forecast ELSE acc.morning
                  l == IF inDay /\ InLunch(h) /\ acc.lunch = NoForecast
                       THEN forecast ELSE acc.lunch
                  e == IF inDay /\ InEvening(h) /\ acc.evening = NoForecast
                       THEN forecast ELSE acc.evening
              IN  ScanForecasts(list, i + 1, now,
                                [morning |-> m, lunch |-> l, evening |-> e, exc |-> NoExc])

\* SlotExc with an empty 'weather' list tolerated
SlotExcLenient(forecast) ==
    CASE forecast.shape = "noTemp" -> Exc("KeyError", "'temp'")
      [] forecast.shape = "noWeather" -> Exc("KeyError", "'weather'")
      [] OTHER -> NoExc

\* The exception that building a slot's dict from the chosen forecast raises, NoExc if none.
SlotExc(forecast) ==
    CASE forecast.shape = "noTemp" -> Exc("KeyError", "'temp'")
      [] forecast.shape = "noWeather" -> Exc("KeyError", "'weather'")
      [] forecast.shape = "emptyWeather" -> Exc("IndexError", "list index out of range")
      [] OTHER -> NoExc

Slot(forecast) ==
    IF forecast = NoForecast THEN PyNone
    ELSE [temperatureInCelsius |-> round(forecast.temp), condition |-> forecast.desc]

RequestExceptions == {"ConnectionError", "HTTPError", "JSONDecodeError"}

\* The three except clauses, by the exception raised inside the try block.
WeatherError(e) ==
    CASE e.type \in RequestExceptions ->
            [error |-> "Error connecting to Weather Service: " \o e.msg]
      [] e.type = "KeyError" ->
            [error |-> "Unexpected data format from weather service. Missing key: " \o e.msg]
      [] OTHER -> [error |-> "Unexpected Error " \o e.msg]

\* CodIs200 comparing the number too
CodIs200Loose(forecastData) == forecastData.cod \in {PyStr("200"), PyNum(200)}

\* forecastData.get('cod') != '200', negated
CodIs200(forecastData) == forecastData.cod = PyStr("200")

\* The body of the try block once the response's JSON is parsed.
WeatherBody(forecastData, now) ==
    IF forecastData.kind # "object"
    THEN Return(WeatherError(Exc("AttributeError", "'list' object has no attribute 'get'")))
    ELSE IF ~CodIs200(forecastData) THEN Return(EmptyDict)
    ELSE IF forecastData.city = "noCity" THEN Return(WeatherError(Exc("KeyError", "'city'")))
    ELSE IF forecastData.city = "noName" THEN Return(WeatherError(Exc("KeyError", "'name'")))
    ELSE IF ~forecastData.hasList THEN Return(WeatherError(Exc("KeyError", "'list'")))
    ELSE LET acc == ScanForecasts(forecastData.list, 1, now,
                        [morning |-> NoForecast, lunch |-> NoForecast,
                         evening |-> NoForecast, exc |-> NoExc])
             chosen == <<acc.morning, acc.lunch, acc.evening>>
             bad == {k \in 1..3 : chosen[k] # NoForecast /\ SlotExc(chosen[k]) # NoExc}
         IN  IF acc.exc # NoExc THEN Return(WeatherError(acc.exc))
             ELSE IF bad # {}
                  THEN Return(WeatherError(SlotExc(chosen[CHOOSE k \in bad : \A j \in bad : k <= j])))
             ELSE Return([city |-> forecastData.cityName,
                          morning |-> Slot(acc.morning),
                          lunch |-> Slot(acc.lunch),
                          evening |-> Slot(acc.evening)])

\* in: apiKey (is OPENWEATHER_API_KEY set), city, now, net (what the HTTP exchange does),
\* body (the JSON the service answers).
getWeatherDetails(in) ==
    IF ~in.apiKey THEN Raise("TypeError")          \* str + None, before the try
    ELSE CASE in.net = "connectionError" ->
                Return(WeatherError(Exc("ConnectionError", "connection failed")))
           [] in.net = "httpError" ->
                Return(WeatherError(Exc("HTTPError", "client or server error")))
           [] in.net = "badJson" ->
                Return(WeatherError(Exc("JSONDecodeError", "expecting value")))
           [] OTHER -> WeatherBody(in.body, in.now)

----------------------------------------------------------------------------
(* findTopRestaurants *)

\* query = f"Best authentic {dishName} restaurants in {city}"
Query(city, dishName) == "Best authentic " \o dishName \o " restaurants in " \o city

\* One element of places['results'].  name and rating are a Python value or absent
\* (hasName, hasRating); address is "absent", "noFormatted" (a dict without
\* 'formatted_address'), "formatted" (a dict with it), "null" or "str" (a string).
Restaurant(place) ==
    [name |-> IF place.hasName THEN PyStr(place.name) ELSE PyNone,
     rating |-> IF place.hasRating THEN PyNum(place.rating) ELSE PyStr("N/A"),
     address |-> IF place.address = "formatted" THEN place.formatted
                 ELSE "Address Not Available"]

\* Take without the slice
TakeAll(s, n) == s

\* s[:n]
Take(s, n) == SubSeq(s, 1, IF Len(s) < n THEN Len(s) ELSE n)

\* addressDict.get on an address that is no dict: the AttributeError names the type
NoGet(address) ==
    Exc("AttributeError",
        (IF address = "null" THEN "'NoneType'" ELSE "'str'") \o " object has no attribute 'get'")

PlacesError(e) ==
    [error |-> "An unexpected error occurred with Google Maps API: " \o e.msg]

\* in: apiKey (is MAPS_API_KEY set), city, dishName, call ("raise" when gmaps.places
\* raises), places (the response: kind "falsy" for None or {}, "noResults" for a dict
\* without 'results', "results" for a dict with the list results).
findTopRestaurants(in) ==
    IF ~in.apiKey THEN Return(PlacesError(Exc("ValueError", "Must provide API key")))
    ELSE IF in.call = "raise" THEN Return(PlacesError(Exc("ApiError", "REQUEST_DENIED")))
    ELSE IF in.places.kind # "results" \/ Len(in.places.results) = 0
    THEN Return([error |-> "No results found for '" \o in.dishName \o "' in " \o in.city])
    ELSE LET first == Take(in.places.results, 3)
             bad == {i \in 1..Len(first) : first[i].address \in {"null", "str"}}
         IN  IF bad # {}
             THEN Return(PlacesError(NoGet(first[CHOOSE i \in bad : \A j \in bad : i <= j].address)))
             ELSE Return([restaurants |-> [i \in 1..Len(first) |-> Restaurant(first[i])]])

----------------------------------------------------------------------------
(* getIconicDish *)

city_dishes ==
    [Hyderabad |-> [breakfast |-> "Pesarattu", lunch |-> "Hyderabadi Biryani", dinner |-> "Haleem"],
     Mumbai    |-> [breakfast |-> "Vada Pav", lunch |-> "Bombay Sandwich", dinner |-> "Pav Bhaji"],
     Delhi     |-> [breakfast |-> "Chole Bhature", lunch |-> "Butter Chicken", dinner |-> "Rajma Chawal"],
     Chennai   |-> [breakfast |-> "Idli", lunch |-> "Sambar Rice", dinner |-> "Dosa"]]

\* d.get(k, default)
Get(d, k, default) == IF k \in DOMAIN d THEN d[k] ELSE default

\* getIconicDish with a fallback that leaves the meal out
getIconicDishPlainFallback(city, meal_time) ==
    Get(Get(city_dishes, city, EmptyDict), meal_time, "Famous dish")

getIconicDish(city, meal_time) ==
    Get(Get(city_dishes, city, EmptyDict), meal_time, "Famous " \o meal_time \o " dish")

----------------------------------------------------------------------------
(* The inputs the tool functions are called on *)

MaxList == 3        \* longest forecast list
MaxResults == 4     \* longest places result list

NowValues == {8, 20}

\* Forecast times.  From now = 8 the next 24 hours are 9..31: the hours at and
\* next to every window boundary (7, 11, 12, 16, 17, 18, 22, 23), every hour of
\* the night (0 to 6), and the two ends of the horizon (8 = now, 32 = now + 24).
DtValues == {8, 9, 11, 12, 16, 17, 18, 22, 23, 24, 25, 26, 27, 28, 29, 30, 31, 32}

\* Each time has its own temperature and one of two descriptions, so a slot tells
\* which entry filled it; the temperatures round down, up, and on a tie.
Forecasts ==
    {Forecast("ok", dt, 13 * dt - 171, IF dt % 2 = 0 THEN "clear sky" ELSE "light rain") :
        dt \in DtValues}
    \cup {Forecast("noDt", 0, 285, "clear sky"),
          Forecast("noTemp", 9, 0, "clear sky"),
          Forecast("noTemp", 17, 0, "clear sky"),
          Forecast("noWeather", 12, 285, ""),
          Forecast("emptyWeather", 18, 285, "")}

ListsUpTo(S, n) == UNION {[1..k -> S] : k \in 0..n}

Cods == {PyStr("200"), PyStr("404"), PyNum(200), PyNone}

WeatherIn(apiKey, net, kind, cod, city, hasList, list, now) ==
    [apiKey |-> apiKey, city |-> "Chennai", now |-> now, net |-> net,
     body |-> [kind |-> kind, cod |-> cod, city |-> city, cityName |-> "Chennai",
               hasList |-> hasList, list |-> list]]

\* Every forecast list on a well-formed answer, and every way the call can go
\* wrong, on the short lists.
WeatherAnswers ==
    {WeatherIn(TRUE, "ok", "object", PyStr("200"), "ok", TRUE, l, now) :
        l \in ListsUpTo(Forecasts, MaxList), now \in NowValues}

WeatherFailures ==
    {WeatherIn(k, n, kd, c, ct, hl, l, now) :
        k \in BOOLEAN, n \in {"ok", "connectionError", "httpError", "badJson"},
        kd \in {"object", "array"}, c \in Cods, ct \in {"ok", "noCity", "noName"},
        hl \in BOOLEAN, l \in ListsUpTo(Forecasts, 1), now \in NowValues}

Place(hasName, name, hasRating, rating, address, formatted) ==
    [hasName |-> hasName, name |-> name, hasRating |-> hasRating, rating |-> rating,
     address |-> address, formatted |-> formatted]

Places ==
    {Place(TRUE, "Murugan Idli Shop", TRUE, 45, "formatted", "77 GN Chetty Rd"),
     Place(TRUE, "Saravana Bhavan", FALSE, 0, "absent", ""),
     Place(FALSE, "", TRUE, 38, "noFormatted", ""),
     Place(TRUE, "Ratna Cafe", TRUE, 41, "absent", ""),
     Place(TRUE, "Sangeetha", TRUE, 45, "null", ""),
     Place(TRUE, "Adyar Ananda Bhavan", TRUE, 43, "str", "")}

SearchCities == {"Chennai", "Paris"}
SearchDishes == {"Idli", "Famous lunch dish"}

PlacesFailures ==
    {[apiKey |-> k, city |-> c, dishName |-> d, call |-> cl,
      places |-> [kind |-> kd, results |-> r]] :
        k \in BOOLEAN, c \in SearchCities, d \in SearchDishes, cl \in {"ok", "raise"},
        kd \in {"falsy", "noResults"}, r \in {<<>>}}

PlacesAnswers ==
    {[apiKey |-> TRUE, city |-> c, dishName |-> d, call |-> "ok",
      places |-> [kind |-> "results", results |-> r]] :
        c \in SearchCities, d \in SearchDishes, r \in ListsUpTo(Places, MaxResults)}

DishCities == {"Hyderabad", "Mumbai", "Delhi", "Chennai", "Paris", "chennai", ""}
DishMeals == {"breakfast", "lunch", "dinner", "brunch", "Breakfast", ""}
DishInputs == [city : DishCities, meal_time : DishMeals]

----------------------------------------------------------------------------
(* The tool functions, called once each on an input *)

NoRun == [step |-> 0, city |-> "", outputs |-> <<>>, calls |-> <<>>]

DriverIdle ==
    /\ stdinTty = FALSE /\ stdoutTty = FALSE /\ encoding = "utf-8"
    /\ pc = "idle" /\ agent = FALSE /\ toolsMade = <<>> /\ task = <<>>
    /\ city_name = Unbound /\ execution = FALSE /\ extStatus = "" /\ result = ""
    /\ stdout = <<>> /\ exitCode = -1 /\ failedAt = "" /\ calls = <<>>
    /\ run = NoRun

InitWeather ==
    /\ tool = "getWeatherDetails"
    /\ toolIn \in WeatherAnswers \/ toolIn \in WeatherFailures
InitRestaurants ==
    /\ tool = "findTopRestaurants"
    /\ toolIn \in PlacesAnswers \/ toolIn \in PlacesFailures
InitDish == tool = "getIconicDish" /\ toolIn \in DishInputs

Init ==
    /\ InitWeather \/ InitRestaurants \/ InitDish
    /\ toolOut = Pending
    /\ DriverIdle

CallWeather ==
    /\ tool = "getWeatherDetails" /\ toolOut = Pending
    /\ toolOut' = getWeatherDetails(toolIn)
    /\ UNCHANGED <<envVars, tool, toolIn, driverVars, run>>

\* findTopRestaurants up to its call of gmaps.places: googlemaps.Client raises
\* without a key, which the except clause turns into the result; with a key the
\* search line is printed and the call waits for the service.
CallRestaurants ==
    /\ tool = "findTopRestaurants" /\ toolOut = Pending
    /\ IF toolIn.apiKey
       THEN /\ stdout' = Append(stdout, "---> Searching Google Maps for "
                                          \o Query(toolIn.city, toolIn.dishName) \o "\n")
            /\ toolOut' = Waiting
       ELSE /\ toolOut' = findTopRestaurants(toolIn)
            /\ UNCHANGED stdout
    /\ UNCHANGED <<envVars, tool, toolIn, pc, agent, toolsMade, task, city_name, execution,
                   extStatus, result, exitCode, failedAt, calls, run>>

\* gmaps.places returns or raises, and the rest of findTopRestaurants
PlacesReturns ==
    /\ tool = "findTopRestaurants" /\ toolOut = Waiting
    /\ toolOut' = findTopRestaurants(toolIn)
    /\ UNCHANGED <<envVars, tool, toolIn, driverVars, run>>

CallDish ==
    /\ tool = "getIconicDish" /\ toolOut = Pending
    /\ toolOut' = Return(getIconicDish(toolIn.city, toolIn.meal_time))
    /\ UNCHANGED <<envVars, tool, toolIn, driverVars, run>>

Next == CallWeather \/ CallRestaurants \/ PlacesReturns \/ CallDish

Spec == Init /\ [][Next]_vars

----------------------------------------------------------------------------
(* The task document handed to client.tasks.create *)

\* Argument templates: "{{ inputs.k }}", "{{ steps.n.output }}", a literal.
Input(k) == [t |-> "input", ref |-> k]
StepOutput(n) == [t |-> "step", ref |-> n]
Literal(v) == [t |-> "literal", ref |-> v]

Step(toolName, name, arguments) == [tool |-> toolName, name |-> name, arguments |-> arguments]

\* a getIconicDish step and a findTopRestaurants step of the document
DishLookup(name, meal) ==
    Step("getIconicDish", name, [city |-> Input("city"), meal_time |-> Literal(meal)])
RestaurantSearch(name, dishStep) ==
    Step("findTopRestaurants", name,
         [city |-> Input("city"), dishName |-> StepOutput(dishStep)])

\* TaskMain with the lunch search wired to the dinner dish
TaskMainCrossed ==
    << Step("getWeatherDetails", "", [city |-> Input("city")]),
       DishLookup("breakfast_dish", "breakfast"),
       DishLookup("lunch_dish", "lunch"),
       DishLookup("dinner_dish", "dinner"),
       RestaurantSearch("breakfast_spots", "breakfast_dish"),
       RestaurantSearch("lunch_spots", "dinner_dish"),
       RestaurantSearch("dinner_spots", "dinner_dish") >>

TaskMain ==
    << Step("getWeatherDetails", "", [city |-> Input("city")]),
       DishLookup("breakfast_dish", "breakfast"),
       DishLookup("lunch_dish", "lunch"),
       DishLookup("dinner_dish", "dinner"),
       RestaurantSearch("breakfast_spots", "breakfast_dish"),
       RestaurantSearch("lunch_spots", "lunch_dish"),
       RestaurantSearch("dinner_spots", "dinner_dish") >>

ToolSchemas == <<"getWeatherDetails", "findTopRestaurants", "getIconicDish">>

----------------------------------------------------------------------------
(* The platform: how it runs a task's steps and moves an execution's status *)

\* A template's value in a run.  A reference to a step that has produced no output
\* yet has no value: the step cannot be carried out.
Defined(tpl, r) == tpl.t = "step" => tpl.ref \in DOMAIN r.outputs

Render(tpl, r) ==
    CASE tpl.t = "input" -> r.city
      [] tpl.t = "step" -> r.outputs[tpl.ref]
      [] OTHER -> tpl.ref

\* What a step's tool call leaves as the step's output, and the query a restaurant
\* search goes out with.  Weather and places answers are the services' business;
\* the run keeps the dish names, which later steps read.
StepCall(step, r) ==
    LET a == [k \in DOMAIN step.arguments |-> Render(step.arguments[k], r)] IN
    CASE step.tool = "getIconicDish" ->
            [tool |-> step.tool, arguments |-> a, query |-> "",
             output |-> getIconicDish(a.city, a.meal_time)]
      [] step.tool = "findTopRestaurants" ->
            [tool |-> step.tool, arguments |-> a, query |-> Query(a.city, a.dishName),
             output |-> ""]
      [] OTHER -> [tool |-> step.tool, arguments |-> a, query |-> "", output |-> ""]

\* An execution is queued, then running, and ends succeeded, failed or cancelled;
\* a status it ended in it keeps.
PlatformStart ==
    /\ execution /\ extStatus = "queued"
    /\ extStatus' = "running"
    /\ UNCHANGED <<envVars, toolVars, pc, agent, toolsMade, task, city_name, execution,
                   result, stdout, exitCode, failedAt, calls, run>>

PlatformStep ==
    /\ execution /\ extStatus = "running" /\ run.step <= Len(task)
    /\ LET step == task[run.step] IN
       /\ \A k \in DOMAIN step.arguments : Defined(step.arguments[k], run)
       /\ LET c == StepCall(step, run) IN
          run' = [run EXCEPT !.step = @ + 1,
                             !.calls = Append(@, [tool |-> c.tool, name |-> step.name,
                                                  arguments |-> c.arguments, query |-> c.query]),
                             !.outputs = IF step.name = "" THEN @
                                         ELSE [n \in DOMAIN @ \cup {step.name} |->
                                                  IF n = step.name THEN c.output ELSE @[n]]]
    /\ UNCHANGED <<envVars, toolVars, driverVars>>

PlatformFinish ==
    /\ execution /\ extStatus = "running" /\ run.step > Len(task)
    /\ extStatus' = "succeeded"
    /\ UNCHANGED <<envVars, toolVars, pc, agent, toolsMade, task, city_name, execution,
                   result, stdout, exitCode, failedAt, calls, run>>

PlatformAbort ==
    /\ execution /\ extStatus \in {"queued", "running"}
    /\ \E st \in {"failed", "cancelled"} : extStatus' = st
    /\ UNCHANGED <<envVars, toolVars, pc, agent, toolsMade, task, city_name, execution,
                   result, stdout, exitCode, failedAt, calls, run>>

----------------------------------------------------------------------------
(* __main__ *)

\* the lines input() can return; an empty line is accepted like any other
Cities == {"Chennai", "Mumbai", "Paris", ""}
Errors == {"Connection error."}

\* Text written to standard output is kept as the characters written.  A
\* character outside ASCII is spelled as Python's escape for it.
Rocket == "\\U0001f680"
CheckMark == "\\u2705"
Rule == "========================================"

\* the encodings standard output can have; the first can encode every character
Encodings == {"utf-8", "ascii", "latin-1"}

Encodes(enc) == enc = "utf-8"

\* str() of the UnicodeEncodeError print raises on the rocket, the character at
\* position 1 of the text of line 256
EncodeError(enc) ==
    "'" \o enc \o "' codec can't encode character '" \o Rocket
        \o "' in position 1: ordinal not in range("
        \o (IF enc = "ascii" THEN "128" ELSE "256") \o ")"

\* input() reads through the terminal only when standard input and standard
\* output are both terminals; otherwise it writes the prompt to standard output
\* and reads a line from standard input.
tty == stdinTty /\ stdoutTty

\* The prompt of input() as written to standard output: through the terminal it
\* goes to standard error.
Prompt == IF tty THEN <<>> ELSE <<"Enter the City: ">>

\* str() of the EOFError input() raises at end of input: empty when the line is
\* read through the terminal
EofText == IF tty THEN "" ELSE "EOF when reading a line"

\* FailSetup without the exit(): control falls through to the second try block
FailSetupNoExit(at, e) ==
    /\ stdout' = Append(stdout, "Error creating Tasks " \o e \o "\n")
    /\ exitCode' = exitCode
    /\ pc' = "input"
    /\ failedAt' = at

\* except Exception of the first try block: print, exit()
FailSetup(at, e) ==
    /\ stdout' = Append(stdout, "Error creating Tasks " \o e \o "\n")
    /\ exitCode' = 0
    /\ pc' = "exited"
    /\ failedAt' = at

\* except Exception of the second try block: print, exit()
FailRun(at, e) ==
    /\ stdout' = Append(stdout, "Error " \o e \o "\n")
    /\ exitCode' = 0
    /\ pc' = "exited"
    /\ failedAt' = at

\* LoopEnds on every status the platform never leaves
LoopEndsOnCancelled(status) == status \in {"succeeded", "failed", "cancelled"}

\* if result.status in ["succeeded", "failed"]: break
LoopEnds(status) == status \in {"succeeded", "failed"}

\* the while loop's executions.get, recorded once however often it repeats
Polled(cs) == IF cs # <<>> /\ cs[Len(cs)] = "executions.get" THEN cs
              ELSE Append(cs, "executions.get")

FinalBanner == CheckMark \o " Task Execution Complete! Final Answer:\n"

\* pprint(result): the rendering of the platform's execution object, of which
\* the status is kept
Pprinted(status) == status \o "\n"

\* the four writes after the loop: two rules around the banner, then the result
\* (a standard output that encoded the rocket of line 256 encodes the check mark)
FinalPrints(status) ==
    <<"\n" \o Rule \o "\n", FinalBanner, Rule \o "\n", Pprinted(status)>>

\* repr of a list of str, without the brackets
RECURSIVE ReprItems(_)
ReprItems(names) ==
    IF names = <<>> THEN ""
    ELSE "'" \o Head(names) \o "'"
           \o (IF Len(names) > 1 THEN ", " ELSE "") \o ReprItems(Tail(names))

\* client = Client(api_key = JULEP_API_KEY), outside any try: an exception here
\* is uncaught, the traceback goes to standard error and the status is 1.
NewClient ==
    /\ pc = "Client"
    /\ \E ok \in BOOLEAN :
         IF ok THEN pc' = "agents.create" /\ UNCHANGED <<exitCode, failedAt>>
         ELSE pc' = "exited" /\ exitCode' = 1 /\ failedAt' = "Client"
    /\ UNCHANGED <<envVars, toolVars, agent, toolsMade, task, city_name, execution, extStatus,
                   result, stdout, calls, run>>

CreateAgent ==
    /\ pc = "agents.create"
    /\ calls' = Append(calls, "agents.create")
    /\ \E ok \in BOOLEAN, e \in Errors :
         IF ok THEN /\ agent' = TRUE
                    /\ stdout' = Append(stdout, "---Agent Created---\n")
                    /\ pc' = "tools.create"
                    /\ UNCHANGED <<exitCode, failedAt>>
         ELSE FailSetup("agents.create", e) /\ UNCHANGED agent
    /\ UNCHANGED <<envVars, toolVars, toolsMade, task, city_name, execution, extStatus, result, run>>

\* the three client.agents.tools.create calls, one per firing, in schema order
CreateTool ==
    /\ pc = "tools.create"
    /\ calls' = Append(calls, "tools.create")
    /\ LET name == ToolSchemas[Len(toolsMade) + 1] IN
       \E ok \in BOOLEAN, e \in Errors :
         IF ok THEN /\ toolsMade' = Append(toolsMade, name)
                    /\ stdout' = Append(stdout, "Created tool: " \o name \o "\n")
                    /\ pc' = IF Len(toolsMade) + 1 = Len(ToolSchemas)
                             THEN "tools.list" ELSE "tools.create"
                    /\ UNCHANGED <<exitCode, failedAt>>
         ELSE FailSetup("tools.create", e) /\ UNCHANGED toolsMade
    /\ UNCHANGED <<envVars, toolVars, agent, task, city_name, execution, extStatus, result, run>>

\* client.agents.tools.list and the two prints after it: the names of the tools
\* the platform holds for the agent, and the agent object, rendered by its type
ListTools ==
    /\ pc = "tools.list"
    /\ calls' = Append(calls, "tools.list")
    /\ \E ok \in BOOLEAN, e \in Errors :
         IF ok THEN /\ stdout' = stdout \o
                          <<"Registered tools: [" \o ReprItems(toolsMade) \o "]\n",
                            "agent\n">>
                    /\ pc' = "tasks.create"
                    /\ UNCHANGED <<exitCode, failedAt>>
         ELSE FailSetup("tools.list", e)
    /\ UNCHANGED <<envVars, toolVars, agent, toolsMade, task, city_name, execution, extStatus,
                   result, run>>

CreateTask ==
    /\ pc = "tasks.create"
    /\ calls' = Append(calls, "tasks.create")
    /\ \E ok \in BOOLEAN, e \in Errors :
         IF ok THEN /\ task' = TaskMain
                    /\ stdout' = Append(stdout,
                          "Task 'Gets One Day Foodie Tour of the City' created Successfully\n")
                    /\ pc' = "input"
                    /\ UNCHANGED <<exitCode, failedAt>>
         ELSE FailSetup("tasks.create", e) /\ UNCHANGED task
    /\ UNCHANGED <<envVars, toolVars, agent, toolsMade, city_name, execution, extStatus, result, run>>

\* input("Enter the City: ") up to its read: the prompt is written and the call
\* waits for a line
PromptCity ==
    /\ pc = "input"
    /\ calls' = Append(calls, "input")
    /\ stdout' = stdout \o Prompt
    /\ pc' = "readline"
    /\ UNCHANGED <<envVars, toolVars, agent, toolsMade, task, city_name, execution,
                   extStatus, result, exitCode, failedAt, run>>

\* input() returns a line, which is bound to city_name, or raises EOFError at end
\* of input
ReadCity ==
    /\ pc = "readline"
    /\ \E eof \in BOOLEAN, c \in Cities :
         IF eof
         THEN FailRun("input", EofText) /\ UNCHANGED city_name
         ELSE /\ city_name' = PyStr(c)
              /\ pc' = "print"
              /\ UNCHANGED <<stdout, exitCode, failedAt>>
    /\ UNCHANGED <<envVars, toolVars, agent, toolsMade, task, execution, extStatus, result,
                   calls, run>>

\* the print of line 256; it raises UnicodeEncodeError, and writes nothing, when
\* standard output cannot encode the rocket
PrintRunning ==
    /\ pc = "print"
    /\ IF Encodes(encoding)
       THEN /\ stdout' = Append(stdout,
                     "\n" \o Rocket \o " Running task for '" \o city_name.v
                          \o "'... Julep is now handling the orchestration.\n")
            /\ pc' = "executions.create"
            /\ UNCHANGED <<exitCode, failedAt>>
       ELSE FailRun("print", EncodeError(encoding))
    /\ UNCHANGED <<envVars, toolVars, agent, toolsMade, task, city_name, execution,
                   extStatus, result, calls, run>>

CreateExecution ==
    /\ pc = "executions.create"
    /\ calls' = Append(calls, "executions.create")
    /\ \E ok \in BOOLEAN, e \in Errors :
         IF ok THEN /\ execution' = TRUE
                    /\ extStatus' = "queued"
                    /\ run' = [step |-> 1, city |-> city_name.v, outputs |-> <<>>, calls |-> <<>>]
                    /\ pc' = "poll"
                    /\ UNCHANGED <<stdout, exitCode, failedAt>>
         ELSE FailRun("executions.create", e) /\ UNCHANGED <<execution, extStatus, run>>
    /\ UNCHANGED <<envVars, toolVars, agent, toolsMade, task, city_name, result>>

\* one pass of the while True loop in which client.executions.get returns, and
\* what follows the break
PollReturns ==
    /\ pc = "poll"
    /\ calls' = Polled(calls)
    /\ result' = extStatus
    /\ IF LoopEnds(extStatus)
       THEN /\ stdout' = stdout \o FinalPrints(extStatus)
            /\ exitCode' = 0
            /\ pc' = "done"
       ELSE UNCHANGED <<stdout, exitCode, pc>>
    /\ UNCHANGED <<envVars, toolVars, agent, toolsMade, task, city_name, execution, extStatus,
                   failedAt, run>>

\* one pass in which client.executions.get raises
PollRaises ==
    /\ pc = "poll"
    /\ calls' = Polled(calls)
    /\ \E e \in Errors : FailRun("executions.get", e)
    /\ UNCHANGED <<envVars, toolVars, agent, toolsMade, task, city_name, execution, extStatus,
                   result, run>>

Poll == PollReturns \/ PollRaises

DriverInit ==
    /\ stdinTty \in BOOLEAN /\ stdoutTty \in BOOLEAN /\ encoding \in Encodings
    /\ tool = "none" /\ toolIn = <<>> /\ toolOut = Pending
    /\ pc = "Client" /\ agent = FALSE /\ toolsMade = <<>> /\ task = <<>>
    /\ city_name = Unbound /\ execution = FALSE /\ extStatus = "" /\ result = ""
    /\ stdout = <<"---Initializing Setup---\n">> /\ exitCode = -1 /\ failedAt = ""
    /\ calls = <<>> /\ run = NoRun

Driver ==
    \/ NewClient \/ CreateAgent \/ CreateTool \/ ListTools \/ CreateTask
    \/ PromptCity \/ ReadCity \/ PrintRunning \/ CreateExecution \/ Poll

Platform == PlatformStart \/ PlatformStep \/ PlatformFinish \/ PlatformAbort

DriverNext == Driver \/ Platform

DriverSpec == DriverInit /\ [][DriverNext]_vars

\* The interpreter runs the loop as long as the process lives, so an answer the
\* platform gives to a poll is acted on.  Whether a poll raises is the
\* environment's choice: nothing makes it happen, and a loop that is only ever
\* answered with a status that does not end it goes on for ever.
FairDriverSpec == DriverSpec /\ WF_vars(PollReturns)

----------------------------------------------------------------------------
(* Properties of the tool functions, under Spec *)

Called(name) == tool = name /\ toolOut.kind \in {"return", "raise"}

\* sub occurs in s
Mentions(s, sub) ==
    \E i \in 1..(Len(s) - Len(sub) + 1) : SubSeq(s, i, i + Len(sub) - 1) = sub

\* The weather service answered with a success status and a JSON object.
Answered == toolIn.apiKey /\ toolIn.net = "ok" /\ toolIn.body.kind = "object"

\* The answer is a forecast: cod "200", a city name and a list.
IsForecast ==
    /\ Answered
    /\ toolIn.body.cod = PyStr("200")
    /\ toolIn.body.city = "ok"
    /\ toolIn.body.hasList

\* The entries of the list whose time is strictly inside (now, now + 24 h) and
\* whose local hour is in [lo, hi), by position.
InWindow(lo, hi) ==
    {i \in 1..Len(toolIn.body.list) :
        LET f == toolIn.body.list[i] IN
        /\ f.shape # "noDt"
        /\ toolIn.now < f.dt /\ f.dt < toolIn.now + 24
        /\ lo <= f.dt % 24 /\ f.dt % 24 < hi}

First(S) == CHOOSE i \in S : \A j \in S : i <= j

\* n is t tenths rounded to a whole number, a tie going to the even one
IsRounded(n, t) ==
    /\ 10 * n - t <= 5 /\ t - 10 * n <= 5
    /\ (10 * n - t = 5 \/ t - 10 * n = 5) => n % 2 = 0

\* slot is what the window [lo, hi) asks for: null without an entry, else the
\* first entry's rounded temperature and description
SlotIsFirst(slot, lo, hi) ==
    IF InWindow(lo, hi) = {} THEN slot = PyNone
    ELSE LET f == toolIn.body.list[First(InWindow(lo, hi))] IN
         /\ slot # PyNone
         /\ IsRounded(slot.temperatureInCelsius, f.temp)
         /\ slot.condition = f.desc

WeatherKeys == {"city", "morning", "lunch", "evening"}

\* C1: none of the three tool functions ever raises: every call returns a value,
\* and for getWeatherDetails and findTopRestaurants every failure of the
\* environment (missing API key, network failure, the client call raising) is
\* returned as an object carrying an 'error' field.
C1_ToolsNeverRaise ==
    /\ toolOut.kind # "raise"
    /\ (Called("getWeatherDetails") /\ (~toolIn.apiKey \/ toolIn.net # "ok"))
          => (toolOut.kind = "return" /\ "error" \in DOMAIN toolOut.value)
    /\ (Called("findTopRestaurants") /\ (~toolIn.apiKey \/ toolIn.call = "raise"))
          => (toolOut.kind = "return" /\ "error" \in DOMAIN toolOut.value)

\* the entries strictly inside (now, now + 24 h), by position
InDay ==
    {i \in 1..Len(toolIn.body.list) :
        /\ toolIn.body.list[i].shape # "noDt"
        /\ toolIn.now < toolIn.body.list[i].dt
        /\ toolIn.body.list[i].dt < toolIn.now + 24}

\* the hours that belong to no window
NoSlotHours == {17, 23} \cup 0..6

\* the slots of the result that hold data
Filled == {k \in {"morning", "lunch", "evening"} : toolOut.value[k] # PyNone}

\* C2: on a successful getWeatherDetails call each of morning, lunch and evening
\* holds the data of the first list entry strictly within the next 24 hours
\* whose local hour is in [7,12), [12,17), [18,23) respectively, and null when
\* there is none; one entry fills at most one slot and an entry at hour 17, 23
\* or 0-6 fills none: no more slots hold data than the list has entries within
\* the next 24 hours at other hours.
C2_FirstEntryPerWindow ==
    (Called("getWeatherDetails") /\ toolOut.kind = "return"
        /\ DOMAIN toolOut.value = WeatherKeys)
    => /\ IsForecast
       /\ SlotIsFirst(toolOut.value.morning, 7, 12)
       /\ SlotIsFirst(toolOut.value.lunch, 12, 17)
       /\ SlotIsFirst(toolOut.value.evening, 18, 23)
       /\ Cardinality(Filled) <=
             Cardinality({i \in InDay : toolIn.body.list[i].dt % 24 \notin NoSlotHours})

\* Lunch is filled by the entry at 12, not by the later one at 16; morning by the
\* entry at 11 that comes last in the list; no entry is in the evening.
C2_Witness ==
    /\ Called("getWeatherDetails") /\ toolOut.kind = "return"
    /\ DOMAIN toolOut.value = WeatherKeys
    /\ toolIn.now = 8
    /\ [i \in 1..Len(toolIn.body.list) |-> toolIn.body.list[i].dt] = <<12, 16, 11>>
    /\ toolOut.value.morning = [temperatureInCelsius |-> -3, condition |-> "light rain"]
    /\ toolOut.value.lunch = [temperatureInCelsius |-> -2, condition |-> "clear sky"]
    /\ toolOut.value.evening = PyNone

\* C3 as stated: whenever the service's response carries a cod other than "200",
\* getWeatherDetails returns an empty object.  A response is carried by a success
\* status and by an error status alike.
C3_Original ==
    (Called("getWeatherDetails") /\ toolIn.apiKey
        /\ toolIn.net \in {"ok", "httpError"} /\ toolIn.body.kind = "object"
        /\ toolIn.body.cod \notin {PyStr("200"), PyNone})
    => toolOut = Return(EmptyDict)

\* C3 amended: when the service answers with a success status and a JSON object
\* whose cod is not the string "200", the result is the empty object; when it
\* answers with an error status the result is the 'error' object alone, whatever
\* cod the body carries.
C3_NonOkCodOnSuccessStatus ==
    /\ (Called("getWeatherDetails") /\ Answered /\ toolIn.body.cod # PyStr("200"))
          => toolOut = Return(EmptyDict)
    /\ (Called("getWeatherDetails") /\ toolIn.apiKey /\ toolIn.net = "httpError")
          => (toolOut.kind = "return" /\ DOMAIN toolOut.value = {"error"})

\* A success status, cod "404", a city and a forecast list: the empty object.
C3_Witness ==
    /\ Called("getWeatherDetails") /\ Answered
    /\ toolIn.body.cod = PyStr("404") /\ toolIn.body.city = "ok" /\ toolIn.body.hasList
    /\ toolOut = Return(EmptyDict)

\* The places client was built and the search returned.
Searched == toolIn.apiKey /\ toolIn.call = "ok"

NoResults == toolIn.places.kind # "results" \/ Len(toolIn.places.results) = 0

\* how many results are returned of n
TopCount(n) == IF n < 3 THEN n ELSE 3

\* each of the results that are looked at carries an address that is absent or an
\* object
AddressesAreObjects ==
    \A i \in 1..TopCount(Len(toolIn.places.results)) :
        toolIn.places.results[i].address \in {"absent", "noFormatted", "formatted"}

\* the result holds the first min(n,3) results in response order, each reduced
\* to name, rating ("N/A" when absent) and address (a placeholder when absent)
IsTopThree ==
    LET k == TopCount(Len(toolIn.places.results)) IN
    /\ DOMAIN toolOut.value = {"restaurants"}
    /\ Len(toolOut.value.restaurants) = k
    /\ \A i \in 1..k :
          LET place == toolIn.places.results[i]
              r == toolOut.value.restaurants[i]
          IN  /\ DOMAIN r = {"name", "rating", "address"}
              /\ place.hasName => r.name = PyStr(place.name)
              /\ r.rating = IF place.hasRating THEN PyNum(place.rating)
                            ELSE PyStr("N/A")
              /\ r.address = IF place.address = "formatted" THEN place.formatted
                             ELSE "Address Not Available"

\* the result is an 'error' string alone that mentions the dish and the city
IsNoResultsError ==
    /\ DOMAIN toolOut.value = {"error"}
    /\ Mentions(toolOut.value.error, toolIn.dishName)
    /\ Mentions(toolOut.value.error, toolIn.city)

\* C4 as stated: for a search response with n results findTopRestaurants returns
\* the first min(n,3) in response order, each reduced to name, rating and
\* address; for n = 0 or an empty response it returns only an 'error' string that
\* mentions the dish and the city; a result never carries both 'restaurants' and
\* 'error' nor an empty 'restaurants' list.
C4_Original ==
    Called("findTopRestaurants") =>
    /\ toolOut.kind = "return"
    /\ DOMAIN toolOut.value \in {{"error"}, {"restaurants"}}
    /\ "restaurants" \in DOMAIN toolOut.value => Len(toolOut.value.restaurants) >= 1
    /\ (Searched /\ NoResults) => IsNoResultsError
    /\ (Searched /\ ~NoResults) => IsTopThree

\* C4 amended: for a search response with n results of which each of the first
\* min(n,3) carries an address that is absent or an object, findTopRestaurants
\* returns the first min(n,3) in response order, each reduced to name, rating
\* ("N/A" when absent) and address (a placeholder when absent); when one of the
\* first min(n,3) carries an address that is not an object it returns only an
\* 'error' string; for n = 0 or an empty response it returns only an 'error'
\* string that mentions the dish and the city; a result never carries both
\* 'restaurants' and 'error' nor an empty 'restaurants' list.
C4_TopThree ==
    Called("findTopRestaurants") =>
    /\ toolOut.kind = "return"
    /\ DOMAIN toolOut.value \in {{"error"}, {"restaurants"}}
    /\ "restaurants" \in DOMAIN toolOut.value => Len(toolOut.value.restaurants) >= 1
    /\ (Searched /\ NoResults) => IsNoResultsError
    /\ (Searched /\ ~NoResults /\ AddressesAreObjects) => IsTopThree
    /\ (Searched /\ ~NoResults /\ ~AddressesAreObjects) => DOMAIN toolOut.value = {"error"}

\* Four results in, the first three out, the second with both defaults; the
\* fourth, which is left out, carries an address that is no object.
C4_Witness ==
    /\ Called("findTopRestaurants") /\ Searched /\ AddressesAreObjects
    /\ Len(toolIn.places.results) = 4
    /\ ~toolIn.places.results[2].hasRating
    /\ toolIn.places.results[4].address = "null"
    /\ toolOut.kind = "return" /\ DOMAIN toolOut.value = {"restaurants"}
    /\ Len(toolOut.value.restaurants) = 3
    /\ toolOut.value.restaurants[2].rating = PyStr("N/A")
    /\ toolOut.value.restaurants[2].address = "Address Not Available"

\* the static table, pair by pair
TablePairs ==
    { <<"Hyderabad", "breakfast", "Pesarattu">>, <<"Hyderabad", "lunch", "Hyderabadi Biryani">>,
      <<"Hyderabad", "dinner", "Haleem">>,
      <<"Mumbai", "breakfast", "Vada Pav">>, <<"Mumbai", "lunch", "Bombay Sandwich">>,
      <<"Mumbai", "dinner", "Pav Bhaji">>,
      <<"Delhi", "breakfast", "Chole Bhature">>, <<"Delhi", "lunch", "Butter Chicken">>,
      <<"Delhi", "dinner", "Rajma Chawal">>,
      <<"Chennai", "breakfast", "Idli">>, <<"Chennai", "lunch", "Sambar Rice">>,
      <<"Chennai", "dinner", "Dosa">> }

\* C5: getIconicDish is total: for each of the 12 (city, meal) pairs of the table
\* it returns that pair's dish, and for every other input "Famous {meal_time}
\* dish", never an error.
C5_DishLookupTotal ==
    Called("getIconicDish") =>
    /\ toolOut.kind = "return"
    /\ Cardinality(TablePairs) = 12
    /\ \A p \in TablePairs :
          (toolIn.city = p[1] /\ toolIn.meal_time = p[2]) => toolOut.value = p[3]
    /\ (\A p \in TablePairs : toolIn.city # p[1] \/ toolIn.meal_time # p[2])
          => toolOut.value = "Famous " \o toolIn.meal_time \o " dish"

\* A listed city with a meal the table does not know.
C5_Witness ==
    /\ Called("getIconicDish")
    /\ toolIn.city = "Chennai" /\ toolIn.meal_time = "brunch"
    /\ toolOut = Return("Famous brunch dish")

\* the malformed shapes of an entry that carries a 'dt'
Malformed == {"noTemp", "noWeather", "emptyWeather"}

\* some window's first entry is malformed
SelectedMalformed ==
    \E w \in {<<7, 12>>, <<12, 17>>, <<18, 23>>} :
        /\ InWindow(w[1], w[2]) # {}
        /\ toolIn.body.list[First(InWindow(w[1], w[2]))].shape \in Malformed

\* C10: every value getWeatherDetails returns has the key set {}, {error} or
\* {city, morning, lunch, evening}; when a selected forecast entry is malformed
\* the result is the error object alone, with no data of the well-formed slots.
C10_ThreeShapes ==
    (Called("getWeatherDetails") /\ toolOut.kind = "return") =>
    /\ DOMAIN toolOut.value \in {{}, {"error"}, WeatherKeys}
    /\ (IsForecast /\ SelectedMalformed) => DOMAIN toolOut.value = {"error"}

\* A well-formed morning entry is selected, the lunch entry lacks 'weather'.
C10_Witness ==
    /\ Called("getWeatherDetails") /\ IsForecast
    /\ InWindow(7, 12) # {}
    /\ toolIn.body.list[First(InWindow(7, 12))].shape = "ok"
    /\ InWindow(12, 17) # {}
    /\ toolIn.body.list[First(InWindow(12, 17))].shape = "noWeather"
    /\ toolOut.kind = "return" /\ DOMAIN toolOut.value = {"error"}

----------------------------------------------------------------------------
(* Properties of the driver and of the task, under DriverSpec and FairDriverSpec *)

Printed(line) == \E i \in 1..Len(stdout) : stdout[i] = line

IsPrefix(s, t) == Len(s) <= Len(t) /\ \A i \in 1..Len(s) : s[i] = t[i]

Exited == exitCode # -1

\* a poll returned succeeded or failed
PolledTerminal == result \in {"succeeded", "failed"}

\* C6 as stated, its last part: after the submission, if no poll ever returns a
\* terminal status the driver never terminates; that is, a driver that has
\* terminated after submitting has polled a terminal status.
C6_Original == (execution /\ Exited) => PolledTerminal

\* C6 amended: the driver leaves the loop and prints the final result only after a
\* poll returned succeeded or failed; once the execution is in a terminal status
\* the driver terminates, by the final print or by a poll that raised; and a
\* driver that terminated after submitting has polled a terminal status or had a
\* poll raise.
C6_PollUntilTerminal ==
    /\ []((pc = "done" \/ Printed(FinalBanner))
            => (PolledTerminal /\ extStatus = result /\ failedAt = ""))
    /\ [](pc = "poll" => (~Exited /\ ~PolledTerminal))
    /\ []((execution /\ Exited) => (PolledTerminal \/ failedAt = "executions.get"))
    /\ (pc = "poll" /\ extStatus \in {"succeeded", "failed"})
          ~> (pc = "done" \/ failedAt = "executions.get")

\* The run of all seven steps succeeded, a poll returned that status, and the
\* driver left the loop and printed the result.
C6_Witness ==
    /\ pc = "done" /\ result = "succeeded" /\ Printed(FinalBanner)
    /\ SubSeq(stdout, Len(stdout) - 3, Len(stdout)) = FinalPrints("succeeded")
    /\ Len(run.calls) = 7

\* what the process itself writes (the execution's status is the platform's)
processVars == <<pc, agent, toolsMade, task, city_name, execution, result, stdout,
                 exitCode, failedAt, calls>>

CallOrder ==
    <<"agents.create", "tools.create", "tools.create", "tools.create", "tools.list",
      "tasks.create", "input", "executions.create", "executions.get">>

ListedSteps ==
    {"agents.create", "tools.create", "tools.list", "tasks.create", "input",
     "executions.create", "executions.get"}

\* C7: the steps are made in the order agent creation, three tool
\* registrations, tool listing, task creation, city prompt, execution
\* submission, polling; while the driver waits at the prompt the task is
\* created, no city is bound and nothing is submitted; a failure at any of the
\* steps is written to standard output and ends the process at once, the failing
\* step being the last one made; no execution is submitted unless the agent, the
\* three tools and the task were created and the city was read; the final
\* result is never printed after a failure.
C7_FailFast ==
    /\ [](IsPrefix(calls, CallOrder))
    /\ [](pc = "readline" =>
            /\ calls[Len(calls)] = "input" /\ city_name = Unbound
            /\ agent /\ toolsMade = ToolSchemas /\ task = TaskMain
            /\ ~execution /\ ~Exited /\ failedAt = ""
            /\ ~tty => stdout[Len(stdout)] = "Enter the City: ")
    /\ [](failedAt \in ListedSteps =>
            /\ pc = "exited" /\ Exited
            /\ calls[Len(calls)] = failedAt
            /\ SubSeq(stdout[Len(stdout)], 1, 6) = "Error "
            /\ ~Printed(FinalBanner))
    /\ [](failedAt # "" => (pc = "exited" /\ ~Printed(FinalBanner)))
    /\ [][failedAt # "" => UNCHANGED processVars]_vars
    /\ []((execution \/ Len(calls) >= 8) =>
            (agent /\ toolsMade = ToolSchemas /\ task = TaskMain /\ city_name # Unbound))

\* The input ended at the prompt: the error follows the prompt, no city is bound
\* and nothing was submitted.
C7_Witness ==
    /\ failedAt = "input" /\ pc = "exited" /\ ~tty
    /\ calls = SubSeq(CallOrder, 1, 7)
    /\ SubSeq(stdout, Len(stdout) - 1, Len(stdout))
          = <<"Enter the City: ", "Error EOF when reading a line\n">>
    /\ city_name = Unbound /\ ~execution

MealOf(spots) ==
    CASE spots = "breakfast_spots" -> "breakfast"
      [] spots = "lunch_spots" -> "lunch"
      [] spots = "dinner_spots" -> "dinner"
      [] OTHER -> ""

ChennaiDish(meal) ==
    CASE meal = "breakfast" -> "Idli"
      [] meal = "lunch" -> "Sambar Rice"
      [] meal = "dinner" -> "Dosa"
      [] OTHER -> ""

\* C8: the task is a sequence of 7 steps, a weather call, the dish lookups for
\* breakfast, lunch and dinner, and three restaurant searches, each search's
\* dishName referring to a named dish lookup earlier in the sequence and for the
\* same meal; run in order for city c, the search for meal m goes out with
\* "Best authentic {getIconicDish(c, m)} restaurants in {c}" (Chennai: Idli,
\* Sambar Rice, Dosa).
C8_TaskPipeline ==
    task # <<>> =>
    /\ Len(task) = 7
    /\ [i \in 1..7 |-> task[i].tool] =
          <<"getWeatherDetails", "getIconicDish", "getIconicDish", "getIconicDish",
            "findTopRestaurants", "findTopRestaurants", "findTopRestaurants">>
    /\ [i \in 2..4 |-> task[i].arguments.meal_time] =
          [i \in 2..4 |-> Literal(<<"", "breakfast", "lunch", "dinner">>[i])]
    /\ \A i \in 5..7 :
          /\ MealOf(task[i].name) # ""
          /\ task[i].arguments.dishName.t = "step"
          /\ \E j \in 1..(i - 1) :
                /\ task[j].name = task[i].arguments.dishName.ref
                /\ task[j].tool = "getIconicDish"
                /\ task[j].arguments.meal_time = Literal(MealOf(task[i].name))
    /\ IsPrefix([k \in 1..Len(run.calls) |-> run.calls[k].tool],
                [i \in 1..7 |-> task[i].tool])
    /\ \A k \in 1..Len(run.calls) :
          run.calls[k].tool = "findTopRestaurants" =>
             LET m == MealOf(run.calls[k].name) IN
             /\ run.calls[k].query =
                   "Best authentic " \o getIconicDish(run.city, m)
                      \o " restaurants in " \o run.city
             /\ run.city = "Chennai" =>
                   run.calls[k].query =
                      "Best authentic " \o ChennaiDish(m) \o " restaurants in Chennai"

\* The run for Chennai has issued all seven calls.
C8_Witness ==
    /\ run.city = "Chennai" /\ Len(run.calls) = 7
    /\ run.calls[5].query = "Best authentic Idli restaurants in Chennai"
    /\ run.calls[6].query = "Best authentic Sambar Rice restaurants in Chennai"
    /\ run.calls[7].query = "Best authentic Dosa restaurants in Chennai"

\* C9: on any setup, creation or execution failure the process exits early with a
\* non-zero exit status; only a run with no such failure continues to the end,
\* prints the result object and exits with status zero.
C9_ExitStatus ==
    Exited =>
    /\ failedAt # "" => (exitCode # 0 /\ ~Printed(FinalBanner))
    /\ failedAt = "" => (exitCode = 0 /\ Printed(FinalBanner))

=============================================================================
